---- MODULE Spec2Model ----
(***************************************************************************)
(* Scan orchestration and admission control of a11y-garden.                *)
(*                                                                         *)
(*   Spec      concurrent scan requests against the shared concurrency     *)
(*             counter (src/lib/rate-limit.ts as driven by POST /api/scan) *)
(*   SpecSeq   one caller issuing acquire / release calls back to back     *)
(*   SpecScan  one scan attempt through POST /api/scan or scanUrl          *)
(***************************************************************************)
EXTENDS Integers, Sequences, FiniteSets, TLC

\* ------------------------------------------------------------------------
\* Program constants
\* ------------------------------------------------------------------------
MAX_CONCURRENT_SCANS == 10
CONCURRENCY_TTL_SECONDS == 120

\* ------------------------------------------------------------------------
\* Bounds of the model
\* ------------------------------------------------------------------------
\* requests that may be in flight at the same time
NumWorkers == 12
\* seconds that pass in one Tick
TickSeconds == 60
\* requests that may be killed without running their cleanup
MaxCrashes == 1
\* SpecSeq: slots the single caller may hold at once
MaxHeld == 12
\* SpecScan: findings one rule-engine run may return
MaxFindings == 2

VARIABLES
  redis,      \* TRUE when the Upstash client exists (rate-limit.ts:17)
  store,      \* the key CONCURRENCY_KEY in the shared store
  at,         \* Spec: number of in-flight requests at each code location
  crashes,    \* Spec: requests killed so far
  leakClock,  \* Spec: seconds since a slot holder was killed, -1 if none was
  held,       \* SpecSeq: acquire calls that returned true and are unreleased
  script,     \* SpecSeq: progress through "N+1 acquires, then N releases"
  nAcq,       \* SpecSeq: acquire calls of the script made so far
  nRel,       \* SpecSeq: release calls of the script made so far
  lastCall,   \* SpecSeq: the call made last
  lastRet,    \* SpecSeq: what the last acquire call returned
  countedBefore, \* SpecSeq: the counter when the last call started
  expired,    \* SpecSeq: the key has expired at some time
  entry,      \* SpecScan: "route" (POST /api/scan) or "scanUrl"
  pc,         \* SpecScan: the statement the scan attempt is at
  pending,    \* SpecScan: completion waiting for the finally blocks to run
  outcome,    \* SpecScan: how the attempt ended, as seen by its caller
  slotAcquired,  \* SpecScan: acquireConcurrencySlot returned true
  releaseCalls,  \* SpecScan: calls of releaseConcurrencySlot so far
  browserOpen,   \* SpecScan: a browser was launched / attached and not closed
  closeCalls,    \* SpecScan: calls of browser.close() so far
  urlRewritten,  \* SpecScan: rewriteLocalhostForDocker rewrote the target
  stageLog,   \* SpecScan: rule-engine stages started, in order
  threw,      \* SpecScan: stages in which the rule engine threw
  mainEl,     \* SpecScan: "unknown", or whether a main container was found
  sessionFailed, \* SpecScan: a browser-session call failed during escalation
  fullScanResult, \* SpecScan: value of the first page.evaluate
  results,    \* SpecScan: value the escalation settled on
  usedSafeMode,  \* SpecScan: the local of the same name
  storeFailed, \* SpecScan: a call to the shared store failed
  response,   \* SpecScan: the ScanResult / JSON body handed to the caller
  captureScreenshot, \* SpecScan: options.captureScreenshot of scanUrl
  page,       \* SpecScan: what the loaded page showed to block detection
  blockedError,  \* SpecScan: title and status carried by the blocked answer
  injected,   \* SpecScan: the rule-engine source was evaluated in the page
  connectCalls,  \* SpecScan: browser launches / attachments so far
  platform,   \* SpecScan: the local of the same name in scanUrl
  screenshot, \* SpecScan: the locals screenshot and screenshotWarning
  phaseLog,   \* SpecScan: phases of the attempt, in the order they started
  rateResult, \* SpecScan: how the call of checkRateLimit ended
  rawUrl,     \* SpecUrl: the URL handed to validateUrl, as new URL parses it
  resolution, \* SpecUrl: what dns lookup answers for the hostname
  isProduction, \* SpecUrl: NODE_ENV === "production"
  validation, \* SpecUrl: what validateUrl returned
  audits,     \* SpecAudit: the audits table, by document id
  violations, \* SpecTrunc: the findings list passed to truncateViolations
  argument,   \* SpecTrunc: the caller's list as it is after the call
  truncation, \* SpecTrunc: what truncateViolations returned
  counts,     \* SpecGrade: the ViolationCounts passed to calculateGrade
  gradeResult \* SpecGrade: what calculateGrade returned

admVars == <<at, crashes, leakClock>>
seqVars == <<held, script, nAcq, nRel, lastCall, lastRet, countedBefore,
             expired>>
scanVars == <<entry, pc, pending, outcome, slotAcquired, releaseCalls,
              browserOpen, closeCalls, urlRewritten, stageLog, threw, mainEl,
              sessionFailed, fullScanResult, results, usedSafeMode,
              storeFailed, response, captureScreenshot, page, blockedError,
              injected, connectCalls, platform, screenshot, phaseLog,
              rateResult>>
redVars == <<violations, argument, truncation, counts, gradeResult>>
sideVars == <<rawUrl, resolution, isProduction, validation, audits>>
vars == <<redis, store, at, crashes, leakClock,
          held, script, nAcq, nRel, lastCall, lastRet, countedBefore, expired,
          entry, pc, pending, outcome, slotAcquired, releaseCalls,
          browserOpen, closeCalls, urlRewritten, stageLog, threw, mainEl,
          sessionFailed, fullScanResult, results, usedSafeMode, storeFailed,
          response, captureScreenshot, page, blockedError, injected,
          connectCalls, platform, screenshot, phaseLog, rateResult,
          violations, argument, truncation, counts, gradeResult,
          rawUrl, resolution, isProduction, validation, audits>>

\* ------------------------------------------------------------------------
\* The shared store: one integer key with an optional time to live
\* ------------------------------------------------------------------------
NoTTL == -1

Absent == [exists |-> FALSE, val |-> 0, ttl |-> NoTTL]

\* redis.incr: a missing key counts as 0 and is created without expiry
INCR(s) ==
  IF s.exists THEN [s EXCEPT !.val = @ + 1]
  ELSE [exists |-> TRUE, val |-> 1, ttl |-> NoTTL]

\* redis.decr: a missing key counts as 0 and is created without expiry
DECR(s) ==
  IF s.exists THEN [s EXCEPT !.val = @ - 1]
  ELSE [exists |-> TRUE, val |-> -1, ttl |-> NoTTL]

\* redis.expire: sets the time to live of an existing key, else does nothing
EXPIRE(s, secs) ==
  IF s.exists THEN [s EXCEPT !.ttl = secs] ELSE s

\* redis.set: writes the value and discards any time to live
SET(s, v) == [exists |-> TRUE, val |-> v, ttl |-> NoTTL]

\* the store after d seconds: a key whose time to live ran out is removed
Elapse(s, d) ==
  IF s.exists /\ s.ttl # NoTTL
  THEN IF s.ttl - d <= 0 THEN Absent ELSE [s EXCEPT !.ttl = @ - d]
  ELSE s

\* what a GET of the key would count
Counted == IF store.exists THEN store.val ELSE 0

\* ------------------------------------------------------------------------
\* Spec: concurrent requests.  Each request of POST /api/scan runs
\* acquireConcurrencySlot, the scan, and releaseConcurrencySlot in its
\* finally block; every redis call is one atomic round trip and requests
\* interleave between round trips.
\* ------------------------------------------------------------------------
\* code locations of an in-flight request
Locs == {"acq_expire_ok",   \* incr returned count <= MAX, expire not yet sent
         "acq_expire_over", \* incr returned count > MAX, expire not yet sent
         "acq_decr",        \* over capacity, compensating decr not yet sent
         "holding",         \* acquire returned true, release not yet called
         "rel_set"}         \* release: decr returned < 0, set 0 not yet sent

InFlight == at["acq_expire_ok"] + at["acq_expire_over"] + at["acq_decr"]
            + at["holding"] + at["rel_set"]

\* requests whose increment has been sent and not yet taken back
LiveIncrements == at["acq_expire_ok"] + at["acq_expire_over"]
                  + at["acq_decr"] + at["holding"]

Enter(l) == [at EXCEPT ![l] = @ + 1]
Leave(l) == [at EXCEPT ![l] = @ - 1]
Move(l, m) == [at EXCEPT ![l] = @ - 1, ![m] = @ + 1]

\* where a request stands after its incr returned count
AfterIncr(count) ==
  IF count > MAX_CONCURRENT_SCANS THEN "acq_expire_over" ELSE "acq_expire_ok"

\* acquireConcurrencySlot, first round trip (or the early return without redis)
AcquireIncr ==
  /\ InFlight < NumWorkers
  /\ IF ~redis
     THEN /\ at' = Enter("holding")
          /\ UNCHANGED store
     ELSE /\ store' = INCR(store)
          /\ at' = Enter(AfterIncr(store'.val))
  /\ UNCHANGED <<redis, crashes, leakClock>>

\* acquireConcurrencySlot, second round trip: refresh the TTL
AcquireExpire ==
  /\ \E l \in {"acq_expire_ok", "acq_expire_over"} :
       /\ at[l] > 0
       /\ store' = EXPIRE(store, CONCURRENCY_TTL_SECONDS)
       /\ at' = Move(l, IF l = "acq_expire_ok" THEN "holding" ELSE "acq_decr")
  /\ UNCHANGED <<redis, crashes, leakClock>>

\* acquireConcurrencySlot over capacity: give the increment back, return false
AcquireCompensate ==
  /\ at["acq_decr"] > 0
  /\ store' = DECR(store)
  /\ at' = Leave("acq_decr")
  /\ UNCHANGED <<redis, crashes, leakClock>>

\* where a releasing request goes after its decr returned count
AfterDecr(count) == IF count < 0 THEN "rel_set" ELSE "done"

\* releaseConcurrencySlot, first round trip (or the early return without redis)
ReleaseDecr ==
  /\ at["holding"] > 0
  /\ IF ~redis
     THEN /\ at' = Leave("holding")
          /\ UNCHANGED store
     ELSE /\ store' = DECR(store)
          /\ at' = IF AfterDecr(store'.val) = "rel_set"
                   THEN Move("holding", "rel_set")
                   ELSE Leave("holding")
  /\ UNCHANGED <<redis, crashes, leakClock>>

\* releaseConcurrencySlot, second round trip: clamp a negative counter to 0
ReleaseClamp ==
  /\ at["rel_set"] > 0
  /\ store' = SET(store, 0)
  /\ at' = Leave("rel_set")
  /\ UNCHANGED <<redis, crashes, leakClock>>

\* a request is killed (process crash, platform timeout) and runs no cleanup
Crash ==
  /\ crashes < MaxCrashes
  /\ \E l \in Locs :
       /\ at[l] > 0
       /\ at' = Leave(l)
       /\ leakClock' = IF l = "holding" /\ redis THEN 0 ELSE leakClock
  /\ crashes' = crashes + 1
  /\ UNCHANGED <<redis, store>>

\* the clock of the leak, which stops one tick past the expiry window
Advance(c) ==
  IF c < 0 THEN c
  ELSE IF c > CONCURRENCY_TTL_SECONDS THEN c ELSE c + TickSeconds

\* TickSeconds pass
Tick ==
  /\ store' = Elapse(store, TickSeconds)
  /\ leakClock' = Advance(leakClock)
  /\ UNCHANGED <<redis, at, crashes>>

NoResults == [kind |-> "none", from |-> "none", impacts |-> << >>, n |-> 0,
              warning |-> FALSE]
NoCounts == [critical |-> 0, serious |-> 0, moderate |-> 0, minor |-> 0,
             total |-> 0]
NoGrade == [score |-> -1, grade |-> "none"]
NoTruncation == [serialized |-> -1, truncated |-> FALSE, findings |-> << >>,
                 passes |-> 0, argument |-> << >>]
NoScreenshot == [bytes |-> -1, warning |-> FALSE, captures |-> 0]
NoResponse == [findings |-> NoResults, safeMode |-> FALSE, warning |-> {},
               violations |-> NoCounts, graded |-> NoGrade,
               rawViolations |-> -1, truncated |-> FALSE,
               screenshot |-> NoScreenshot, platform |-> "unset"]
NoPage == [httpStatus |-> 0, pageTitle |-> "", bodyChars |-> 0,
           fingerprintAt |-> -1, readable |-> FALSE, looksBlocked |-> FALSE]
NoBlockedError == [pageTitle |-> "", httpStatus |-> 0]

\* bound: the documents the audits table can hold
MaxAudits == 2

\* no address: fam is 4 or 6 for an address, o holds the IPv4 octets (of the
\* embedded address for an IPv4-mapped one), h and rest describe an IPv6 one
NoAddr == [fam |-> 0, o |-> <<0, 0, 0, 0>>, h |-> 0, rest |-> "none"]

NoUrl == [scheme |-> "none", host |-> "none", addr |-> NoAddr]

NoResolution == [kind |-> "unused", addr |-> NoAddr]

NoValidation == [ok |-> FALSE, reason |-> "not called"]

\* a document id no insert has used yet
NoAudit == [status |-> "absent", violations |-> NoCounts,
            letterGrade |-> "F", score |-> 0, gradingVersion |-> 0,
            userId |-> "none"]

SideIdle ==
  /\ rawUrl = NoUrl /\ resolution = NoResolution /\ isProduction = FALSE
  /\ validation = NoValidation
  /\ audits = [id \in 1..MaxAudits |-> NoAudit]

\* checkRateLimit not called yet; a field of -1 stands for undefined
NoRateResult == [kind |-> "none", reachable |-> TRUE, allowed |-> FALSE,
                 limit |-> -1, remaining |-> -1, reset |-> -1]

ScanIdle ==
  /\ entry = "none" /\ pc = "idle" /\ pending = "none" /\ outcome = "none"
  /\ slotAcquired = FALSE /\ releaseCalls = 0
  /\ browserOpen = FALSE /\ closeCalls = 0 /\ urlRewritten = FALSE
  /\ stageLog = << >> /\ threw = {} /\ mainEl = "unknown"
  /\ sessionFailed = FALSE /\ storeFailed = FALSE
  /\ fullScanResult = NoResults /\ results = NoResults
  /\ usedSafeMode = FALSE /\ response = NoResponse
  /\ captureScreenshot = FALSE /\ page = NoPage
  /\ blockedError = NoBlockedError /\ injected = FALSE
  /\ connectCalls = 0 /\ platform = "unset" /\ screenshot = NoScreenshot
  /\ phaseLog = << >> /\ rateResult = NoRateResult

RedIdle ==
  /\ violations = << >> /\ argument = << >> /\ truncation = NoTruncation
  /\ counts = NoCounts /\ gradeResult = NoGrade

SeqIdle ==
  /\ held = 0 /\ script = "acquiring" /\ nAcq = 0 /\ nRel = 0
  /\ lastCall = "none" /\ lastRet = FALSE /\ countedBefore = 0
  /\ expired = FALSE

Init ==
  /\ redis \in BOOLEAN
  /\ store = Absent
  /\ at = [l \in Locs |-> 0]
  /\ crashes = 0
  /\ leakClock = -1
  /\ SeqIdle
  /\ ScanIdle
  /\ SideIdle
  /\ RedIdle

Next ==
  \/ AcquireIncr /\ UNCHANGED <<seqVars, scanVars, redVars, sideVars>>
  \/ AcquireExpire /\ UNCHANGED <<seqVars, scanVars, redVars, sideVars>>
  \/ AcquireCompensate /\ UNCHANGED <<seqVars, scanVars, redVars, sideVars>>
  \/ ReleaseDecr /\ UNCHANGED <<seqVars, scanVars, redVars, sideVars>>
  \/ ReleaseClamp /\ UNCHANGED <<seqVars, scanVars, redVars, sideVars>>
  \/ Crash /\ UNCHANGED <<seqVars, scanVars, redVars, sideVars>>
  \/ Tick /\ UNCHANGED <<seqVars, scanVars, redVars, sideVars>>

Spec == Init /\ [][Next]_vars

\* ------------------------------------------------------------------------
\* SpecSeq: one caller, no concurrency.  Each call runs all its round trips
\* before the next call starts; time may pass between calls.
\* ------------------------------------------------------------------------
\* variant: the over-capacity call returns false without giving back its
\* increment
acquireConcurrencySlot_NoCompensate(r, s) ==
  IF ~r THEN [store |-> s, ret |-> TRUE]
  ELSE LET s1 == INCR(s)
           s2 == EXPIRE(s1, CONCURRENCY_TTL_SECONDS)
       IN [store |-> s2, ret |-> AfterIncr(s1.val) # "acq_expire_over"]

\* acquireConcurrencySlot run to completion on store s
acquireConcurrencySlot(r, s) ==
  IF ~r THEN [store |-> s, ret |-> TRUE]
  ELSE LET s1 == INCR(s)
           s2 == EXPIRE(s1, CONCURRENCY_TTL_SECONDS)
       IN IF AfterIncr(s1.val) = "acq_expire_over"
          THEN [store |-> DECR(s2), ret |-> FALSE]
          ELSE [store |-> s2, ret |-> TRUE]

\* releaseConcurrencySlot run to completion on store s
releaseConcurrencySlot(r, s) ==
  IF ~r THEN s
  ELSE LET s1 == DECR(s)
       IN IF AfterDecr(s1.val) = "rel_set" THEN SET(s1, 0) ELSE s1

\* the script "N+1 acquires, then N matching releases" from the fresh state
ScriptAfterAcquire ==
  IF script = "acquiring" /\ nAcq < MAX_CONCURRENT_SCANS + 1
  THEN "acquiring" ELSE "off"

ScriptAfterRelease ==
  IF \/ script = "acquiring" /\ nAcq = MAX_CONCURRENT_SCANS + 1
     \/ script = "releasing" /\ nRel < MAX_CONCURRENT_SCANS
  THEN "releasing" ELSE "off"

SeqAcquire ==
  /\ held < MaxHeld
  /\ LET r == acquireConcurrencySlot(redis, store)
     IN /\ store' = r.store
        /\ lastRet' = r.ret
        /\ held' = IF r.ret THEN held + 1 ELSE held
  /\ script' = ScriptAfterAcquire
  /\ nAcq' = IF script' = "acquiring" THEN nAcq + 1 ELSE nAcq
  /\ lastCall' = "acquire"
  /\ countedBefore' = Counted
  /\ UNCHANGED <<redis, nRel, expired>>

\* a release that matches an earlier successful acquire
SeqRelease ==
  /\ held > 0
  /\ store' = releaseConcurrencySlot(redis, store)
  /\ held' = held - 1
  /\ script' = ScriptAfterRelease
  /\ nRel' = IF script' = "releasing" THEN nRel + 1 ELSE nRel
  /\ lastCall' = "release"
  /\ countedBefore' = Counted
  /\ UNCHANGED <<redis, nAcq, lastRet, expired>>

\* a release for a slot that was already released (retried cleanup)
SeqStrayRelease ==
  /\ store' = releaseConcurrencySlot(redis, store)
  /\ script' = "off"
  /\ lastCall' = "stray"
  /\ countedBefore' = Counted
  /\ UNCHANGED <<redis, held, nAcq, nRel, lastRet>>
  /\ UNCHANGED expired

SeqTick ==
  /\ store' = Elapse(store, TickSeconds)
  /\ expired' = (expired \/ (store.exists /\ ~store'.exists))
  /\ lastCall' = "tick"
  /\ countedBefore' = Counted
  /\ UNCHANGED <<redis, held, script, nAcq, nRel, lastRet>>

InitSeq == Init

NextSeq ==
  \/ SeqAcquire /\ UNCHANGED <<admVars, scanVars, redVars, sideVars>>
  \/ SeqRelease /\ UNCHANGED <<admVars, scanVars, redVars, sideVars>>
  \/ SeqStrayRelease /\ UNCHANGED <<admVars, scanVars, redVars, sideVars>>
  \/ SeqTick /\ UNCHANGED <<admVars, scanVars, redVars, sideVars>>

SpecSeq == InitSeq /\ [][NextSeq]_vars

\* C4 as stated: from the fresh state, of N+1 consecutive acquire calls the
\* first N return true and the (N+1)th returns false and leaves the counter
\* at N; after the N matching releases the counter is 0.
C4_ScriptOutcome ==
  /\ (script = "acquiring" /\ nAcq >= 1)
       => (lastRet = (nAcq <= MAX_CONCURRENT_SCANS))
  /\ (script = "acquiring" /\ nAcq = MAX_CONCURRENT_SCANS + 1)
       => (Counted = MAX_CONCURRENT_SCANS)
  /\ (script = "releasing" /\ nRel = MAX_CONCURRENT_SCANS) => (Counted = 0)

C5_StrayReleaseHarmless ==
  (redis /\ lastCall = "stray")
    => /\ Counted >= 0
       /\ (countedBefore >= held => Counted >= held)

\* ------------------------------------------------------------------------
\* The result reducer: counting by severity, calculateGrade and
\* truncateViolations.  A finding is a record of its impact, the number of
\* its nodes and the serialized size of one node; the serialized list is
\* measured as JSON.stringify lays it out.
\* ------------------------------------------------------------------------
MAX_RAW_VIOLATIONS_CHARS == 512000
TRUNCATE_PASS_CAP == 50

\* longest findings list given to truncateViolations
MaxListLen == 51
\* most nodes of one finding
MaxNodes == 5000
\* serialized size of one node: a short snippet, a long one, a huge one
SmallNodeChars == 200
LargeNodeChars == 10000
HugeNodeChars == 600000
\* serialized size of a finding without its nodes
BaseChars == 300
\* SpecGrade: largest count of each severity
MaxCritical == 5
MaxSerious == 3
MaxModerate == 4
MaxMinor == 41

Impacts == <<"critical", "serious", "moderate", "minor", "undefined">>

Min(a, b) == IF a < b THEN a ELSE b

Max(a, b) == IF a > b THEN a ELSE b

\* a finding: its nodes array holds the occurrences first .. first + nodes - 1
\* of the ones the rule engine reported, numbered from 1
Finding(imp, n, chars) ==
  [impact |-> imp, nodes |-> n, nodeChars |-> chars, first |-> 1]

\* the number of findings in vs whose impact is imp
RECURSIVE CountImpact(_, _)
CountImpact(vs, imp) ==
  IF vs = << >> THEN 0
  ELSE (IF Head(vs).impact = imp THEN 1 ELSE 0) + CountImpact(Tail(vs), imp)

\* variant: an impact other than the four severities is not counted
ViolationCounts_DropUnknown(vs) ==
  [critical |-> CountImpact(vs, "critical"),
   serious |-> CountImpact(vs, "serious"),
   moderate |-> CountImpact(vs, "moderate"),
   minor |-> CountImpact(vs, "minor"), total |-> Len(vs)]

\* the severity counts of a findings list: an impact that is not critical,
\* serious or moderate is counted as minor
ViolationCounts(vs) ==
  LET c == CountImpact(vs, "critical")
      s == CountImpact(vs, "serious")
      m == CountImpact(vs, "moderate")
  IN [critical |-> c, serious |-> s, moderate |-> m,
      minor |-> Len(vs) - c - s - m, total |-> Len(vs)]

\* variant: a serious finding caps the score at 79
calculateGrade_SeriousCap79(v) ==
  LET penalty == v.critical * 25 + v.serious * 12 + v.moderate * 5
                 + v.minor * 1
      base == Max(0, 100 - penalty)
      score == IF v.critical > 0 THEN Min(base, 55)
               ELSE IF v.serious > 0 THEN Min(base, 79)
               ELSE IF v.moderate >= 3 THEN Min(base, 85)
               ELSE base
  IN [score |-> score,
      grade |-> IF score >= 90 THEN "A" ELSE IF score >= 80 THEN "B"
                ELSE IF score >= 70 THEN "C" ELSE IF score >= 60 THEN "D"
                ELSE "F"]

\* calculateGrade; the counts are integers, which Math.round leaves as they are
calculateGrade(v) ==
  LET penalty == v.critical * 25 + v.serious * 12 + v.moderate * 5
                 + v.minor * 1
      base == Max(0, 100 - penalty)
      score == IF v.critical > 0 THEN Min(base, 55)
               ELSE IF v.serious > 0 THEN Min(base, 72)
               ELSE IF v.moderate >= 3 THEN Min(base, 85)
               ELSE base
  IN [score |-> score,
      grade |-> IF score >= 90 THEN "A" ELSE IF score >= 80 THEN "B"
                ELSE IF score >= 70 THEN "C" ELSE IF score >= 60 THEN "D"
                ELSE "F"]

\* JSON.stringify of one finding: its own fields, then "[", the nodes
\* separated by commas, "]"
FindingChars(v) ==
  BaseChars + 2 + v.nodes * v.nodeChars + Max(v.nodes - 1, 0)

RECURSIVE SumChars(_)
SumChars(vs) ==
  IF vs = << >> THEN 0 ELSE FindingChars(Head(vs)) + SumChars(Tail(vs))

\* JSON.stringify(violations).length
JsonLength(vs) == 2 + SumChars(vs) + Max(Len(vs) - 1, 0)

\* variant: on a tie the last finding with the most nodes is taken
MaxIdx_LastOnTies(vs) ==
  IF \A i \in 1..Len(vs) : vs[i].nodes <= 1 THEN -1
  ELSE CHOOSE i \in 1..Len(vs) :
         /\ vs[i].nodes > 1
         /\ \A j \in 1..Len(vs) : vs[j].nodes <= vs[i].nodes
         /\ \A j \in (i + 1)..Len(vs) : vs[j].nodes < vs[i].nodes

\* lines 113-121: the first finding with the most nodes, more than one; -1 if
\* no finding has more than one node
MaxIdx(vs) ==
  IF \A i \in 1..Len(vs) : vs[i].nodes <= 1 THEN -1
  ELSE CHOOSE i \in 1..Len(vs) :
         /\ vs[i].nodes > 1
         /\ \A j \in 1..Len(vs) : vs[j].nodes <= vs[i].nodes
         /\ \A j \in 1..(i - 1) : vs[j].nodes < vs[i].nodes

\* Math.max(1, Math.floor(n / 2))
KeepCount(n) == Max(1, n \div 2)

\* variant: the finding with the most nodes is dropped from the list
Halved_DropFinding(vs, i) ==
  [j \in 1..(Len(vs) - 1) |-> IF j < i THEN vs[j] ELSE vs[j + 1]]

\* trimmed[maxIdx].nodes = trimmed[maxIdx].nodes.slice(0, keepCount)
Halved(vs, i) == [vs EXCEPT ![i].nodes = KeepCount(@)]

\* the loop of lines 109-131, from pass on; passes counts the halvings made
RECURSIVE TrimLoop(_, _, _)
TrimLoop(trimmed, pass, halvings) ==
  IF pass >= TRUNCATE_PASS_CAP
     \/ JsonLength(trimmed) <= MAX_RAW_VIOLATIONS_CHARS
     \/ MaxIdx(trimmed) = -1
  THEN [trimmed |-> trimmed, passes |-> halvings]
  ELSE TrimLoop(Halved(trimmed, MaxIdx(trimmed)), pass + 1, halvings + 1)

\* variant: a copy of the list that shares the finding objects
DeepClone_Shallow(vs) == [value |-> vs, shared |-> TRUE]

\* JSON.parse(serialized): a copy that shares nothing with the original
DeepClone(vs) == [value |-> vs, shared |-> FALSE]

\* truncateViolations: the returned serialized length and flag, the list the
\* serialized string holds, the halvings made, and the caller's list after
\* the call
truncateViolations(vs) ==
  IF JsonLength(vs) <= MAX_RAW_VIOLATIONS_CHARS
  THEN [serialized |-> JsonLength(vs), truncated |-> FALSE,
        findings |-> vs, passes |-> 0, argument |-> vs]
  ELSE LET clone == DeepClone(vs)
           r == TrimLoop(clone.value, 0, 0)
       IN [serialized |-> JsonLength(r.trimmed), truncated |-> TRUE,
           findings |-> r.trimmed, passes |-> r.passes,
           argument |-> IF clone.shared THEN r.trimmed ELSE vs]

\* ------------------------------------------------------------------------
\* SpecTrunc: truncateViolations applied to a findings list
\* ------------------------------------------------------------------------
\* a list of len findings: the first has n1 nodes, the others n2 each, every
\* node serializes to chars characters, impacts rotate from offset o
TruncInput(len, n1, n2, chars, o) ==
  [i \in 1..len |->
     Finding(Impacts[((i + o) % 5) + 1], IF i = 1 THEN n1 ELSE n2, chars)]

\* the shapes of the lists tried; a huge node comes with few nodes
TruncShapes ==
  {sh \in [len : {0, 1, 2, MaxListLen}, n1 : {0, 1, 2, 3, MaxNodes},
           n2 : {0, 1, 2},
           chars : {SmallNodeChars, LargeNodeChars, HugeNodeChars},
           o : 0..4] :
     sh.chars = HugeNodeChars => sh.n1 <= 3}

TruncInputs ==
  {TruncInput(sh.len, sh.n1, sh.n2, sh.chars, sh.o) : sh \in TruncShapes}

InitTrunc ==
  /\ redis = FALSE /\ store = Absent
  /\ at = [l \in Locs |-> 0] /\ crashes = 0 /\ leakClock = -1
  /\ SeqIdle
  /\ ScanIdle
  /\ SideIdle
  /\ violations \in TruncInputs
  /\ argument = violations
  /\ truncation = NoTruncation
  /\ counts = NoCounts /\ gradeResult = NoGrade

\* the caller counts the findings by severity, then calls truncateViolations
TruncateCall ==
  /\ truncation = NoTruncation
  /\ counts' = ViolationCounts(violations)
  /\ truncation' = truncateViolations(violations)
  /\ argument' = truncation'.argument
  /\ UNCHANGED <<redis, store, violations, gradeResult>>

NextTrunc ==
  \/ TruncateCall /\ UNCHANGED <<admVars, seqVars, scanVars, sideVars>>

SpecTrunc == InitTrunc /\ [][NextTrunc]_vars

\* ------------------------------------------------------------------------
\* SpecGrade: calculateGrade applied to violation counts
\* ------------------------------------------------------------------------
GradeInputs ==
  {[critical |-> c, serious |-> s, moderate |-> m, minor |-> n,
    total |-> c + s + m + n] :
     c \in 0..MaxCritical, s \in 0..MaxSerious, m \in 0..MaxModerate,
     n \in 0..MaxMinor}

InitGrade ==
  /\ redis = FALSE /\ store = Absent
  /\ at = [l \in Locs |-> 0] /\ crashes = 0 /\ leakClock = -1
  /\ SeqIdle
  /\ ScanIdle
  /\ SideIdle
  /\ violations = << >> /\ argument = << >> /\ truncation = NoTruncation
  /\ counts \in GradeInputs
  /\ gradeResult = NoGrade

GradeCall ==
  /\ gradeResult = NoGrade
  /\ gradeResult' = calculateGrade(counts)
  /\ UNCHANGED <<redis, store, violations, argument, truncation, counts>>

NextGrade ==
  \/ GradeCall /\ UNCHANGED <<admVars, seqVars, scanVars, sideVars>>

SpecGrade == InitGrade /\ [][NextGrade]_vars

\* ------------------------------------------------------------------------
\* SpecScan: one scan attempt, either the request handler POST /api/scan
\* (entry "route") or a call of scanUrl (entry "scanUrl").  Every awaited
\* call is one step; what the environment answers (the page, the rule
\* engine, the browser session, the store) is chosen at the step.
\* ------------------------------------------------------------------------
Stages == <<"full", "safe", "minimal", "empty">>

Rank(st) == CHOOSE i \in 1..4 : Stages[i] = st

BODY_SAMPLE_CHARS == 2000
BLOCKED_BODY_MAX == 5000

\* isLocalWSEndpoint: the endpoint parses and its host is a loopback name
isLocalWSEndpoint(ws) == ws = "local"

\* rewriteLocalhostForDocker, the `rewritten` flag of its result
rewriteLocalhostForDocker(host, ws) ==
  IF ws = "none" \/ ~isLocalWSEndpoint(ws) THEN FALSE
  ELSE host = "loopback"

\* looksBlocked: bodyLength is the length of the sampled body text
looksBlocked(httpStatus, titleHit, bodyHit, bodyLength) ==
  \/ httpStatus = 403
  \/ httpStatus = 503
  \/ titleHit
  \/ (bodyHit /\ bodyLength < BLOCKED_BODY_MAX)

\* "error" in r && r.error
HasError(r) == r.kind = "error"

\* the impacts of the findings one rule-engine run may return
ImpactLists ==
  UNION {[1..k -> {Impacts[i] : i \in 1..Len(Impacts)}] : k \in 0..MaxFindings}

Violations(st, imps) == [kind |-> "violations", from |-> st, impacts |-> imps,
                         n |-> Len(imps), warning |-> FALSE]
EvalError(st) == [kind |-> "error", from |-> st, impacts |-> << >>, n |-> 0,
                  warning |-> FALSE]
EmptyWithWarning == [kind |-> "violations", from |-> "empty",
                     impacts |-> << >>, n |-> 0, warning |-> TRUE]

\* results.violations as truncateViolations measures it
FindingsOf(r) == [i \in 1..r.n |-> Finding(r.impacts[i], 1, SmallNodeChars)]

\* variant: release only on the paths that return, a throw goes to the catch
RouteAbrupt_ThrowSkipsFinally(isThrow, inner) ==
  IF isThrow THEN "outerCatch" ELSE "release"

\* POST: where control goes when a statement inside the try of lines 184-534
\* completes abruptly; inner tells whether it is inside the try of 267-530
RouteAbrupt(isThrow, inner) ==
  IF isThrow /\ inner THEN "innerCatch" ELSE "release"

\* scanUrl: inner tells whether the statement is inside the try of 523-803
ScanUrlAbrupt(inner) == IF inner THEN "closeFinally" ELSE "settle"

\* a return (kind names the response) or a throw (kind = "throw")
Abrupt(kind, inner) ==
  /\ pending' = kind
  /\ pc' = IF entry = "route" THEN RouteAbrupt(kind = "throw", inner)
           ELSE ScanUrlAbrupt(inner)

\* variant: the Minimal run is never tried
AfterSafeThrows_SkipMinimal(found) == "empty"

\* the stage after the Safe run threw inside the page
AfterSafeThrows(found) == IF found THEN "minimal" ELSE "empty"

\* variant: a throwing Minimal run starts the escalation over
AfterMinimalThrows_Retry == "full"

\* variant: the throw of the Minimal run is not caught in the page
AfterMinimalThrows_Propagate == "innerCatch"

\* the stage after the Minimal run threw inside the page
AfterMinimalThrows == "empty"

\* the statement after the escalation settled on results
AfterEscalation == IF entry = "route" THEN "closeAfterScan" ELSE "check"

\* `warning` of the POST response body
routeWarning(r) == IF r.warning THEN {"too_complex"} ELSE {}

\* variant: only the rewrite notice is kept
combinedWarnings_DropScanWarning(r, rewritten) ==
  IF rewritten THEN {"url_rewritten"} ELSE {}

\* combinedWarnings of scanUrl
combinedWarnings(r, rewritten) ==
  (IF r.warning THEN {"too_complex"} ELSE {})
    \cup (IF rewritten THEN {"url_rewritten"} ELSE {})

\* the phase of the attempt a statement belongs to
Phase(pcv) ==
  CASE pcv \in {"ratelimit", "acquire"} -> "admit"
    [] pcv \in {"parse", "validate"} -> "validate"
    [] pcv \in {"connect", "context", "goto"} -> "navigate"
    [] pcv = "platform" -> "platform"
    [] pcv = "detect" -> "detect"
    [] pcv = "screenshot" -> "screenshot"
    [] pcv \in {"inject", "full", "safe", "minimal", "empty"} -> "escalate"
    [] pcv = "reduce" -> "reduce"
    [] pcv = "release" -> "release"
    [] OTHER -> "none"

\* the phases so far, once the statement at pcv has run
Logged(log, pcv) ==
  IF Phase(pcv) = "none" \/ (log # << >> /\ log[Len(log)] = Phase(pcv))
  THEN log ELSE Append(log, Phase(pcv))

\* variant: the browser is attached before the target is validated
AfterConnect_ThenValidate == IF entry = "route" THEN "validate" ELSE "context"

\* the statement after the browser was launched or attached
AfterConnect == "context"

\* the statement after page.goto, the waits and page.title
AfterNavigate == IF entry = "scanUrl" THEN "platform" ELSE "detect"

\* variant: the engine is injected right after platform detection
AfterPlatform_SkipDetect == "inject"

\* the statement after detectPlatform
AfterPlatform == "detect"

\* variant: a blocked page is scanned like any other
OnBlocked_Continue == "continue"

\* what a positive classification does
OnBlocked == "abort"

\* the statement after a page that does not look blocked
AfterDetect ==
  IF entry = "scanUrl" /\ captureScreenshot THEN "screenshot" ELSE "inject"

\* blockedTitlePatterns.test(pageTitle)
blockedTitlePatterns(title) == title \in {"Just a moment...", "Access Denied"}

\* blockedBodyPatterns.test(bodyText): the fingerprint lies in the sample
blockedBodyPatterns(fingerprintAt, sampleChars) ==
  fingerprintAt >= 0 /\ fingerprintAt < sampleChars

\* isLikelyBlankScreenshot
isLikelyBlankScreenshot(bytes) == bytes < 30000

escVars == <<stageLog, threw, mainEl, fullScanResult, results, usedSafeMode>>
slotVars == <<slotAcquired, releaseCalls>>
browserVars == <<browserOpen, closeCalls>>
obsVars == <<page, blockedError, injected, connectCalls, platform, screenshot>>

\* POST lines 132-147: production without a cloud browser is refused
EnvGuard ==
  /\ pc = "start" /\ entry = "route"
  /\ \E ok \in BOOLEAN :
       IF ok THEN pc' = "ratelimit" /\ UNCHANGED pending
       ELSE pc' = "settle" /\ pending' = "misconfigured"
  /\ UNCHANGED <<redis, store, entry, outcome, slotVars, browserVars,
                 urlRewritten, escVars, sessionFailed, storeFailed, response>>
  /\ UNCHANGED obsVars

\* scanUrl lines 515-516
RewriteTarget ==
  /\ pc = "start" /\ entry = "scanUrl"
  /\ \E host \in {"loopback", "other"}, ws \in {"none", "local", "remote"} :
       urlRewritten' = rewriteLocalhostForDocker(host, ws)
  /\ pc' = "connect"
  /\ UNCHANGED <<redis, store, entry, pending, outcome, slotVars, browserVars,
                 escVars, sessionFailed, storeFailed, response>>
  /\ UNCHANGED obsVars

\* Ratelimit.slidingWindow(20, "1 h"): the tokens of one window
RATE_LIMIT_TOKENS == 20

\* how ratelimit.limit(ip) may end: the store answered and the call is within
\* the window or not, or the store could not be reached and the call rejects
LimitOutcomes ==
  {[reachable |-> TRUE, success |-> TRUE, limit |-> RATE_LIMIT_TOKENS,
    remaining |-> r, reset |-> 1] : r \in {0, RATE_LIMIT_TOKENS - 1}}
  \cup {[reachable |-> TRUE, success |-> FALSE, limit |-> RATE_LIMIT_TOKENS,
          remaining |-> 0, reset |-> 1],
         [reachable |-> FALSE, success |-> FALSE, limit |-> -1,
          remaining |-> -1, reset |-> -1]}

\* checkRateLimit; enabled is the module constant ratelimit being non-null.
\* The awaited ratelimit.limit(ip) is not guarded, so its rejection leaves
\* the function as a throw.
checkRateLimit(enabled, lib) ==
  IF ~enabled
  THEN [kind |-> "returned", reachable |-> TRUE, allowed |-> TRUE,
        limit |-> -1, remaining |-> -1, reset |-> -1]
  ELSE IF ~lib.reachable
  THEN [kind |-> "threw", reachable |-> FALSE, allowed |-> FALSE,
        limit |-> -1, remaining |-> -1, reset |-> -1]
  ELSE [kind |-> "returned", reachable |-> TRUE, allowed |-> lib.success,
        limit |-> lib.limit, remaining |-> lib.remaining,
        reset |-> lib.reset]

\* POST lines 156-173: the per-caller limiter answers, or the store fails
RateLimit ==
  /\ pc = "ratelimit"
  /\ \E lib \in LimitOutcomes :
       /\ rateResult' = checkRateLimit(redis, lib)
       /\ CASE rateResult'.kind = "threw" ->
                pc' = "outerCatch" /\ pending' = "throw"
                /\ storeFailed' = TRUE
            [] rateResult'.kind = "returned" /\ rateResult'.allowed ->
                pc' = "acquire" /\ UNCHANGED <<pending, storeFailed>>
            [] OTHER ->
                pc' = "settle" /\ pending' = "ratelimited"
                /\ UNCHANGED storeFailed
  /\ UNCHANGED <<redis, store, entry, outcome, slotVars, browserVars,
                 urlRewritten, escVars, sessionFailed, response>>
  /\ UNCHANGED obsVars

\* POST lines 176-182
AcquireSlot ==
  /\ pc = "acquire"
  /\ \/ LET r == acquireConcurrencySlot(redis, store)
        IN /\ store' = r.store
           /\ slotAcquired' = r.ret
           /\ IF r.ret THEN pc' = "parse" /\ UNCHANGED pending
              ELSE pc' = "settle" /\ pending' = "capacity"
           /\ UNCHANGED storeFailed
     \/ /\ redis
        /\ store' \in {store, INCR(store)}
        /\ pc' = "outerCatch" /\ pending' = "throw" /\ storeFailed' = TRUE
        /\ UNCHANGED slotAcquired
  /\ UNCHANGED <<redis, entry, outcome, releaseCalls, browserVars,
                 urlRewritten, escVars, sessionFailed, response>>
  /\ UNCHANGED obsVars

\* POST lines 186-193
ParseBody ==
  /\ pc = "parse"
  /\ \E v \in {"ok", "missing", "throws"} :
       CASE v = "ok" -> pc' = "validate" /\ UNCHANGED pending
         [] v = "missing" -> Abrupt("invalid", FALSE)
         [] v = "throws" -> Abrupt("throw", FALSE)
  /\ UNCHANGED <<redis, store, entry, outcome, slotVars, browserVars,
                 urlRewritten, escVars, sessionFailed, storeFailed, response>>
  /\ UNCHANGED obsVars

\* POST lines 198-205
ValidateTarget ==
  /\ pc = "validate"
  /\ \E v \in {"ok", "rejected", "throws"} :
       CASE v = "ok" -> pc' = "connect" /\ UNCHANGED pending
         [] v = "rejected" -> Abrupt("invalid", FALSE)
         [] v = "throws" -> Abrupt("throw", FALSE)
  /\ UNCHANGED <<redis, store, entry, outcome, slotVars, browserVars,
                 urlRewritten, escVars, sessionFailed, storeFailed, response>>
  /\ UNCHANGED obsVars

\* chromium.connectOverCDP / chromium.launch
Connect ==
  /\ pc = "connect"
  /\ connectCalls' = connectCalls + 1
  /\ \/ /\ browserOpen' = TRUE
        /\ pc' = AfterConnect
        /\ UNCHANGED <<pending, sessionFailed>>
     \/ /\ Abrupt("throw", FALSE)
        /\ sessionFailed' = TRUE
        /\ UNCHANGED browserOpen
  /\ UNCHANGED <<redis, store, entry, outcome, slotVars, closeCalls,
                 urlRewritten, escVars, storeFailed, response>>
  /\ UNCHANGED <<page, blockedError, injected, platform, screenshot>>

\* browser.newContext, context.newPage, page.addInitScript
Context ==
  /\ pc = "context"
  /\ \/ pc' = "goto" /\ UNCHANGED <<pending, sessionFailed>>
     \/ Abrupt("throw", entry = "scanUrl") /\ sessionFailed' = TRUE
  /\ UNCHANGED <<redis, store, entry, outcome, slotVars, browserVars,
                 urlRewritten, escVars, storeFailed, response>>
  /\ UNCHANGED obsVars

\* page.goto and the settle waits
Navigate ==
  /\ pc = "goto"
  /\ \/ pc' = AfterNavigate /\ UNCHANGED <<pending, sessionFailed>>
     \/ Abrupt("throw", TRUE) /\ sessionFailed' = TRUE
  /\ UNCHANGED <<redis, store, entry, outcome, slotVars, browserVars,
                 urlRewritten, escVars, storeFailed, response>>
  /\ UNCHANGED obsVars

\* scanUrl lines 587-590: a failure of detectPlatform is caught
DetectPlatform ==
  /\ pc = "platform"
  /\ platform' \in {"wordpress", "undefined"}
  /\ pc' = AfterPlatform
  /\ UNCHANGED <<redis, store, entry, pending, outcome, slotVars, browserVars,
                 urlRewritten, escVars, sessionFailed, storeFailed, response>>
  /\ UNCHANGED <<page, blockedError, injected, connectCalls, screenshot>>

Titles == {"Example Domain", "Just a moment..."}
BodySizes == {100, 3000, 6000}
FingerprintOffsets == {-1, 50, 2500}

\* block detection on status, title and the sampled body text; readable is
\* FALSE when the page.evaluate that reads the body fails, which is caught
Detect ==
  /\ pc = "detect"
  /\ \E httpStatus \in {200, 403, 503}, pageTitle \in Titles,
        bodyChars \in BodySizes, fingerprintAt \in FingerprintOffsets,
        readable \in BOOLEAN :
       /\ fingerprintAt < bodyChars
       /\ LET bodyLength == IF readable
                            THEN Min(bodyChars, BODY_SAMPLE_CHARS) ELSE 0
              blocked ==
                looksBlocked(httpStatus, blockedTitlePatterns(pageTitle),
                             blockedBodyPatterns(fingerprintAt, bodyLength),
                             bodyLength)
          IN /\ page' = [httpStatus |-> httpStatus, pageTitle |-> pageTitle,
                         bodyChars |-> bodyChars,
                         fingerprintAt |-> fingerprintAt,
                         readable |-> readable, looksBlocked |-> blocked]
             /\ IF blocked /\ OnBlocked = "abort"
                THEN IF entry = "route"
                     THEN /\ pc' = "closeBlocked"
                          /\ UNCHANGED <<pending, blockedError>>
                     ELSE /\ Abrupt("blocked", TRUE)
                          /\ blockedError' = [pageTitle |-> pageTitle,
                                              httpStatus |-> httpStatus]
                ELSE /\ pc' = AfterDetect
                     /\ UNCHANGED <<pending, blockedError>>
  /\ UNCHANGED <<redis, store, entry, outcome, slotVars, browserVars,
                 urlRewritten, escVars, sessionFailed, storeFailed, response>>
  /\ UNCHANGED <<injected, connectCalls, platform, screenshot>>

\* sizes in bytes of the JPEG a page.screenshot call may return
ShotSizes == {20000, 300000}

\* what a step of the capture may give instead of a size: the page.screenshot
\* call threw, or (before the second call) page.waitForTimeout threw
CaptureThrew == -1
WaitThrew == -2

\* scanUrl lines 620-655: the screenshot, retried once when it looks blank;
\* any failure inside is caught.  captures counts the page.screenshot calls.
Screenshot ==
  /\ pc = "screenshot"
  /\ \E first \in ShotSizes \cup {CaptureThrew},
        retry \in ShotSizes \cup {CaptureThrew, WaitThrew} :
       screenshot' =
         IF first = CaptureThrew
         THEN [bytes |-> -1, warning |-> FALSE, captures |-> 1]
         ELSE IF ~isLikelyBlankScreenshot(first)
              THEN [bytes |-> first, warning |-> FALSE, captures |-> 1]
         ELSE IF retry = WaitThrew
              THEN [bytes |-> first, warning |-> FALSE, captures |-> 1]
         ELSE IF retry = CaptureThrew
              THEN [bytes |-> first, warning |-> FALSE, captures |-> 2]
         ELSE IF ~isLikelyBlankScreenshot(retry)
              THEN [bytes |-> retry, warning |-> FALSE, captures |-> 2]
         ELSE [bytes |-> first, warning |-> TRUE, captures |-> 2]
  /\ pc' = "inject"
  /\ UNCHANGED <<redis, store, entry, pending, outcome, slotVars, browserVars,
                 urlRewritten, escVars, sessionFailed, storeFailed, response>>
  /\ UNCHANGED <<page, blockedError, injected, connectCalls, platform>>

\* POST lines 308-315: close the browser, answer 403 blocked
CloseBlocked ==
  /\ pc = "closeBlocked"
  /\ closeCalls' = closeCalls + 1
  /\ \/ /\ browserOpen' = FALSE
        /\ Abrupt("blocked", TRUE)
        /\ blockedError' = [pageTitle |-> page.pageTitle,
                            httpStatus |-> page.httpStatus]
        /\ UNCHANGED sessionFailed
     \/ /\ Abrupt("throw", TRUE)
        /\ sessionFailed' = TRUE
        /\ UNCHANGED <<browserOpen, blockedError>>
  /\ UNCHANGED <<redis, store, entry, outcome, slotVars,
                 urlRewritten, escVars, storeFailed, response>>
  /\ UNCHANGED <<page, injected, connectCalls, platform, screenshot>>

\* getAxeCoreSource and page.evaluate(axeSource)
Inject ==
  /\ pc = "inject"
  /\ \/ pc' = "full" /\ injected' = TRUE
        /\ UNCHANGED <<pending, sessionFailed>>
     \/ Abrupt("throw", TRUE) /\ sessionFailed' = TRUE
        /\ UNCHANGED injected
  /\ UNCHANGED <<redis, store, entry, outcome, slotVars, browserVars,
                 urlRewritten, escVars, storeFailed, response>>
  /\ UNCHANGED <<page, blockedError, connectCalls, platform, screenshot>>

\* variant: findings of the first run count as a failure
FullFailed_OnFindings(r) == HasError(r) \/ r.n > 0

\* the escalation condition after the first run
FullFailed(r) == HasError(r)

\* the escalation settles on r
Settled(r, safeMode) ==
  /\ results' = r
  /\ usedSafeMode' = safeMode
  /\ pc' = AfterEscalation

\* Full: every rule on document.body
FullStage ==
  /\ pc = "full"
  /\ stageLog' = Append(stageLog, "full")
  /\ \E o \in {"ok", "engineThrows", "sessionFails"}, k \in ImpactLists :
       /\ fullScanResult' = IF o = "ok" THEN Violations("full", k)
                            ELSE EvalError("full")
       /\ threw' = IF o = "ok" THEN threw ELSE threw \cup {"full"}
       /\ sessionFailed' = (sessionFailed \/ o = "sessionFails")
  /\ IF FullFailed(fullScanResult')
     THEN pc' = "safe" /\ UNCHANGED <<results, usedSafeMode>>
     ELSE Settled(fullScanResult', usedSafeMode)
  /\ UNCHANGED <<redis, store, entry, pending, outcome, slotVars, browserVars,
                 urlRewritten, mainEl, storeFailed, response>>
  /\ UNCHANGED obsVars

\* Safe: SAFE_RULES on document.body, inside the second page.evaluate
SafeStage ==
  /\ pc = "safe"
  /\ stageLog' = Append(stageLog, "safe")
  /\ \E o \in {"ok", "engineThrows", "rejects"}, k \in ImpactLists,
        found \in BOOLEAN :
       CASE o = "ok" ->
              /\ Settled(Violations("safe", k), TRUE)
              /\ UNCHANGED <<threw, mainEl, sessionFailed>>
         [] o = "engineThrows" ->
              /\ threw' = threw \cup {"safe"}
              /\ mainEl' = IF found THEN "found" ELSE "absent"
              /\ pc' = AfterSafeThrows(found)
              /\ UNCHANGED <<results, usedSafeMode, sessionFailed>>
         [] o = "rejects" ->
              /\ Settled(EvalError("safe"), TRUE)
              /\ sessionFailed' = TRUE
              /\ UNCHANGED <<threw, mainEl>>
  /\ UNCHANGED <<redis, store, entry, pending, outcome, slotVars, browserVars,
                 urlRewritten, fullScanResult, storeFailed, response>>
  /\ UNCHANGED obsVars

\* Minimal: five rules on the first main container found
MinimalStage ==
  /\ pc = "minimal"
  /\ stageLog' = Append(stageLog, "minimal")
  /\ \E o \in {"ok", "engineThrows", "rejects"}, k \in ImpactLists :
       CASE o = "ok" ->
              /\ Settled(Violations("minimal", k), TRUE)
              /\ UNCHANGED <<threw, sessionFailed>>
         [] o = "engineThrows" ->
              /\ threw' = threw \cup {"minimal"}
              /\ pc' = AfterMinimalThrows
              /\ UNCHANGED <<results, usedSafeMode, sessionFailed>>
         [] o = "rejects" ->
              /\ Settled(EvalError("minimal"), TRUE)
              /\ sessionFailed' = TRUE
              /\ UNCHANGED threw
  /\ UNCHANGED <<redis, store, entry, pending, outcome, slotVars, browserVars,
                 urlRewritten, mainEl, fullScanResult, storeFailed, response>>
  /\ UNCHANGED obsVars

\* Empty-with-warning: no findings and the _warning field
EmptyStage ==
  /\ pc = "empty"
  /\ stageLog' = Append(stageLog, "empty")
  /\ Settled(EmptyWithWarning, TRUE)
  /\ UNCHANGED <<redis, store, entry, pending, outcome, slotVars, browserVars,
                 urlRewritten, threw, mainEl, sessionFailed, fullScanResult,
                 storeFailed, response>>
  /\ UNCHANGED obsVars

\* POST line 471
CloseAfterScan ==
  /\ pc = "closeAfterScan"
  /\ closeCalls' = closeCalls + 1
  /\ \/ /\ browserOpen' = FALSE
        /\ pc' = "check"
        /\ UNCHANGED <<pending, sessionFailed>>
     \/ /\ Abrupt("throw", TRUE)
        /\ sessionFailed' = TRUE
        /\ UNCHANGED browserOpen
  /\ UNCHANGED <<redis, store, entry, outcome, slotVars,
                 urlRewritten, escVars, storeFailed, response>>
  /\ UNCHANGED obsVars

\* the error check on results: POST answers 500, scanUrl throws
CheckError ==
  /\ pc = "check"
  /\ IF HasError(results)
     THEN Abrupt(IF entry = "route" THEN "scan_failed" ELSE "throw", TRUE)
     ELSE pc' = "reduce" /\ UNCHANGED pending
  /\ UNCHANGED <<redis, store, entry, outcome, slotVars, browserVars,
                 urlRewritten, escVars, sessionFailed, storeFailed, response>>
  /\ UNCHANGED obsVars

\* counting, truncation and the result object
Reduce ==
  /\ pc = "reduce"
  /\ LET v == ViolationCounts(FindingsOf(results))
         t == truncateViolations(FindingsOf(results))
     IN response' =
          [findings |-> results,
           safeMode |-> usedSafeMode,
           warning |-> IF entry = "route" THEN routeWarning(results)
                       ELSE combinedWarnings(results, urlRewritten),
           violations |-> v,
           graded |-> IF entry = "route" THEN calculateGrade(v) ELSE NoGrade,
           rawViolations |-> t.serialized,
           truncated |-> t.truncated,
           screenshot |-> screenshot,
           platform |-> platform]
  /\ Abrupt("result", TRUE)
  /\ UNCHANGED <<redis, store, entry, outcome, slotVars, browserVars,
                 urlRewritten, escVars, sessionFailed, storeFailed>>
  /\ UNCHANGED obsVars

\* POST lines 527-530: close the browser and rethrow
InnerCatch ==
  /\ pc = "innerCatch"
  /\ closeCalls' = closeCalls + 1
  /\ \/ browserOpen' = FALSE /\ UNCHANGED sessionFailed
     \/ sessionFailed' = TRUE /\ UNCHANGED browserOpen
  /\ pending' = "throw"
  /\ pc' = "release"
  /\ UNCHANGED <<redis, store, entry, outcome, slotVars,
                 urlRewritten, escVars, storeFailed, response>>
  /\ UNCHANGED obsVars

\* POST lines 531-534: the finally block
Release ==
  /\ pc = "release"
  /\ releaseCalls' = releaseCalls + 1
  /\ \/ /\ store' = releaseConcurrencySlot(redis, store)
        /\ pc' = IF pending = "throw" THEN "outerCatch" ELSE "settle"
        /\ UNCHANGED storeFailed
     \/ /\ redis
        /\ store' \in {store, DECR(store)}
        /\ storeFailed' = TRUE
        /\ pc' = "outerCatch"
  /\ UNCHANGED <<redis, entry, pending, outcome, slotAcquired, browserVars,
                 urlRewritten, escVars, sessionFailed, response>>
  /\ UNCHANGED obsVars

\* POST lines 535-539
OuterCatch ==
  /\ pc = "outerCatch"
  /\ pc' = "done"
  /\ outcome' = "error"
  /\ UNCHANGED <<redis, store, entry, pending, slotVars, browserVars,
                 urlRewritten, escVars, sessionFailed, storeFailed, response>>
  /\ UNCHANGED obsVars

\* scanUrl lines 801-803: the finally block
CloseFinally ==
  /\ pc = "closeFinally"
  /\ closeCalls' = closeCalls + 1
  /\ \/ /\ browserOpen' = FALSE
        /\ pc' = "settle"
        /\ UNCHANGED <<outcome, sessionFailed>>
     \/ /\ sessionFailed' = TRUE
        /\ pc' = "done"
        /\ outcome' = "error"
        /\ UNCHANGED browserOpen
  /\ UNCHANGED <<redis, store, entry, pending, slotVars,
                 urlRewritten, escVars, storeFailed, response>>
  /\ UNCHANGED obsVars

\* the pending return value or exception reaches the caller
Settle ==
  /\ pc = "settle"
  /\ pc' = "done"
  /\ outcome' = IF pending = "throw" THEN "error" ELSE pending
  /\ UNCHANGED <<redis, store, entry, pending, slotVars, browserVars,
                 urlRewritten, escVars, sessionFailed, storeFailed, response>>
  /\ UNCHANGED obsVars

\* counters the store may hold when the request arrives
ScanStores ==
  {Absent} \cup
  {[exists |-> TRUE, val |-> v, ttl |-> CONCURRENCY_TTL_SECONDS] :
     v \in {0, MAX_CONCURRENT_SCANS - 1, MAX_CONCURRENT_SCANS}}

InitScan ==
  /\ entry \in {"route", "scanUrl"}
  /\ redis \in (IF entry = "route" THEN BOOLEAN ELSE {FALSE})
  /\ store \in (IF redis THEN ScanStores ELSE {Absent})
  /\ at = [l \in Locs |-> 0] /\ crashes = 0 /\ leakClock = -1
  /\ SeqIdle
  /\ pc = "start" /\ pending = "none" /\ outcome = "none"
  /\ slotAcquired = FALSE /\ releaseCalls = 0
  /\ browserOpen = FALSE /\ closeCalls = 0 /\ urlRewritten = FALSE
  /\ stageLog = << >> /\ threw = {} /\ mainEl = "unknown"
  /\ sessionFailed = FALSE /\ storeFailed = FALSE
  /\ fullScanResult = NoResults /\ results = NoResults
  /\ usedSafeMode = FALSE /\ response = NoResponse
  /\ captureScreenshot \in (IF entry = "scanUrl" THEN BOOLEAN ELSE {FALSE})
  /\ page = NoPage /\ blockedError = NoBlockedError /\ injected = FALSE
  /\ connectCalls = 0 /\ platform = "unset" /\ screenshot = NoScreenshot
  /\ phaseLog = << >> /\ rateResult = NoRateResult
  /\ RedIdle
  /\ SideIdle

NextScan ==
  \/ EnvGuard /\ phaseLog' = Logged(phaseLog, pc)
       /\ UNCHANGED <<admVars, seqVars, redVars, captureScreenshot, rateResult,
                    sideVars>>
  \/ RewriteTarget /\ phaseLog' = Logged(phaseLog, pc)
       /\ UNCHANGED <<admVars, seqVars, redVars, captureScreenshot, rateResult,
                    sideVars>>
  \/ RateLimit /\ phaseLog' = Logged(phaseLog, pc)
       /\ UNCHANGED <<admVars, seqVars, redVars, captureScreenshot, sideVars>>
  \/ AcquireSlot /\ phaseLog' = Logged(phaseLog, pc)
       /\ UNCHANGED <<admVars, seqVars, redVars, captureScreenshot, rateResult,
                    sideVars>>
  \/ ParseBody /\ phaseLog' = Logged(phaseLog, pc)
       /\ UNCHANGED <<admVars, seqVars, redVars, captureScreenshot, rateResult,
                    sideVars>>
  \/ ValidateTarget /\ phaseLog' = Logged(phaseLog, pc)
       /\ UNCHANGED <<admVars, seqVars, redVars, captureScreenshot, rateResult,
                    sideVars>>
  \/ Connect /\ phaseLog' = Logged(phaseLog, pc)
       /\ UNCHANGED <<admVars, seqVars, redVars, captureScreenshot, rateResult,
                    sideVars>>
  \/ Context /\ phaseLog' = Logged(phaseLog, pc)
       /\ UNCHANGED <<admVars, seqVars, redVars, captureScreenshot, rateResult,
                    sideVars>>
  \/ Navigate /\ phaseLog' = Logged(phaseLog, pc)
       /\ UNCHANGED <<admVars, seqVars, redVars, captureScreenshot, rateResult,
                    sideVars>>
  \/ DetectPlatform /\ phaseLog' = Logged(phaseLog, pc)
       /\ UNCHANGED <<admVars, seqVars, redVars, captureScreenshot, rateResult,
                    sideVars>>
  \/ Detect /\ phaseLog' = Logged(phaseLog, pc)
       /\ UNCHANGED <<admVars, seqVars, redVars, captureScreenshot, rateResult,
                    sideVars>>
  \/ Screenshot /\ phaseLog' = Logged(phaseLog, pc)
       /\ UNCHANGED <<admVars, seqVars, redVars, captureScreenshot, rateResult,
                    sideVars>>
  \/ CloseBlocked /\ phaseLog' = Logged(phaseLog, pc)
       /\ UNCHANGED <<admVars, seqVars, redVars, captureScreenshot, rateResult,
                    sideVars>>
  \/ Inject /\ phaseLog' = Logged(phaseLog, pc)
       /\ UNCHANGED <<admVars, seqVars, redVars, captureScreenshot, rateResult,
                    sideVars>>
  \/ FullStage /\ phaseLog' = Logged(phaseLog, pc)
       /\ UNCHANGED <<admVars, seqVars, redVars, captureScreenshot, rateResult,
                    sideVars>>
  \/ SafeStage /\ phaseLog' = Logged(phaseLog, pc)
       /\ UNCHANGED <<admVars, seqVars, redVars, captureScreenshot, rateResult,
                    sideVars>>
  \/ MinimalStage /\ phaseLog' = Logged(phaseLog, pc)
       /\ UNCHANGED <<admVars, seqVars, redVars, captureScreenshot, rateResult,
                    sideVars>>
  \/ EmptyStage /\ phaseLog' = Logged(phaseLog, pc)
       /\ UNCHANGED <<admVars, seqVars, redVars, captureScreenshot, rateResult,
                    sideVars>>
  \/ CloseAfterScan /\ phaseLog' = Logged(phaseLog, pc)
       /\ UNCHANGED <<admVars, seqVars, redVars, captureScreenshot, rateResult,
                    sideVars>>
  \/ CheckError /\ phaseLog' = Logged(phaseLog, pc)
       /\ UNCHANGED <<admVars, seqVars, redVars, captureScreenshot, rateResult,
                    sideVars>>
  \/ Reduce /\ phaseLog' = Logged(phaseLog, pc)
       /\ UNCHANGED <<admVars, seqVars, redVars, captureScreenshot, rateResult,
                    sideVars>>
  \/ InnerCatch /\ phaseLog' = Logged(phaseLog, pc)
       /\ UNCHANGED <<admVars, seqVars, redVars, captureScreenshot, rateResult,
                    sideVars>>
  \/ Release /\ phaseLog' = Logged(phaseLog, pc)
       /\ UNCHANGED <<admVars, seqVars, redVars, captureScreenshot, rateResult,
                    sideVars>>
  \/ OuterCatch /\ phaseLog' = Logged(phaseLog, pc)
       /\ UNCHANGED <<admVars, seqVars, redVars, captureScreenshot, rateResult,
                    sideVars>>
  \/ CloseFinally /\ phaseLog' = Logged(phaseLog, pc)
       /\ UNCHANGED <<admVars, seqVars, redVars, captureScreenshot, rateResult,
                    sideVars>>
  \/ Settle /\ phaseLog' = Logged(phaseLog, pc)
       /\ UNCHANGED <<admVars, seqVars, redVars, captureScreenshot, rateResult,
                    sideVars>>

SpecScan == InitScan /\ [][NextScan]_vars

\* C2: a POST request whose acquireConcurrencySlot returned true has called
\* releaseConcurrencySlot exactly once when it finishes, whichever way it
\* finishes (result, missing or invalid URL, blocked page, scan error, thrown
\* exception), and never calls it twice.
C2_ReleaseExactlyOnce ==
  /\ releaseCalls <= 1
  /\ (entry = "route" /\ pc = "done" /\ slotAcquired) => releaseCalls = 1

C2_Witness ==
  /\ entry = "route" /\ pc = "done" /\ slotAcquired /\ releaseCalls = 1
  /\ pending = "throw" /\ outcome = "error" /\ stageLog # << >>

\* C6: the stages of one scan are started in the order Full, Safe, Minimal,
\* Empty-with-warning; none is started twice and none after a later one.
C6_StagesInOrder ==
  \A i, j \in 1..Len(stageLog) :
    i < j => Rank(stageLog[i]) < Rank(stageLog[j])

C6_Witness == pc = "done" /\ stageLog = Stages

\* C7: a result has safeMode = true exactly when the Full stage threw; when
\* Full did not throw, no other stage ran and the result carries the findings
\* Full returned, however many they are.
C7_SafeModeIffFullThrew ==
  (pc = "done" /\ outcome = "result") =>
    /\ response.safeMode = ("full" \in threw)
    /\ ("full" \notin threw) =>
         (stageLog = <<"full">> /\ response.findings = fullScanResult)

C7_Witness ==
  /\ pc = "done" /\ outcome = "result" /\ ~response.safeMode
  /\ response.findings.n = MaxFindings /\ stageLog = <<"full">>

Started(st) == \E i \in 1..Len(stageLog) : stageLog[i] = st

EndedEmpty == Len(stageLog) > 0 /\ stageLog[Len(stageLog)] = "empty"

\* C8 as stated: Minimal runs whenever Safe throws, and the Empty-with-warning
\* outcome is produced only after Minimal has run and thrown.
C8_Original ==
  /\ ("safe" \in threw /\ pc = "done") => Started("minimal")
  /\ results.warning => "minimal" \in threw

\* C8 amended: Minimal runs whenever Safe throws and a main content container
\* is present, and only then; the Empty-with-warning outcome is produced only
\* after Safe threw and Minimal either ran and threw or was skipped because
\* no container was found.
C8_MinimalWhenContainer ==
  /\ ("safe" \in threw /\ mainEl = "found" /\ pc # "minimal")
       => Started("minimal")
  /\ Started("minimal") => ("safe" \in threw /\ mainEl = "found")
  /\ results.warning =>
       ("safe" \in threw /\ ("minimal" \in threw \/ mainEl = "absent"))

C8_Witness ==
  /\ pc = "done" /\ outcome = "result" /\ results.warning
  /\ "safe" \in threw /\ "minimal" \in threw /\ mainEl = "found"

C10_Original ==
  (pc = "done" /\ outcome = "result")
    => ((response.warning # {}) <=> EndedEmpty)

\* C10 amended: a result carries the too-complex warning exactly when the
\* escalation ended in Empty-with-warning; the warning of scanUrl carries in
\* addition the rewrite notice exactly when the target was rewritten for a
\* Docker browser, so a result of a completed stage has no warning unless
\* the target was rewritten.
C10_WarningIffEmptyOrRewritten ==
  (pc = "done" /\ outcome = "result") =>
    /\ ("too_complex" \in response.warning) <=> EndedEmpty
    /\ ("url_rewritten" \in response.warning)
         <=> (entry = "scanUrl" /\ urlRewritten)
    /\ response.warning \subseteq {"too_complex", "url_rewritten"}

C10_Witness ==
  /\ pc = "done" /\ outcome = "result" /\ entry = "scanUrl"
  /\ EndedEmpty /\ response.warning = {"too_complex", "url_rewritten"}

\* C1: at no time do more than MAX_CONCURRENT_SCANS requests hold a slot
\* (acquire returned true, release not yet called), in any interleaving.
C1_HoldersWithinCap == redis => at["holding"] <= MAX_CONCURRENT_SCANS

\* C3: once more than CONCURRENCY_TTL_SECONDS have passed since a slot holder
\* was killed (hence since its acquire), the counter no longer counts its
\* slot: it holds no more than the increments of the requests still alive,
\* whatever the other requests did in the meantime.
C3_CrashedSlotReclaimed ==
  (redis /\ leakClock > CONCURRENCY_TTL_SECONDS) => Counted <= LiveIncrements

C12_BlockedIffShortFingerprint ==
  (page # NoPage /\ page.readable) =>
    (page.looksBlocked <=>
       \/ page.httpStatus \in {403, 503}
       \/ blockedTitlePatterns(page.pageTitle)
       \/ (page.fingerprintAt >= 0 /\ page.bodyChars < BLOCKED_BODY_MAX))

C14_RejectedBeforeBrowser ==
  (pending \in {"ratelimited", "capacity", "invalid"}
   \/ outcome \in {"ratelimited", "capacity", "invalid"})
    => (connectCalls = 0 /\ ~browserOpen /\ closeCalls = 0)

C14_Witness ==
  /\ pc = "done" /\ outcome = "invalid" /\ slotAcquired /\ releaseCalls = 1
  /\ phaseLog = <<"admit", "validate", "release">> /\ connectCalls = 0

\* C15: an attempt never ends with a browser session that was opened and
\* that nothing asked to close, whichever statement ended the attempt.
C15_BrowserClosedOnEveryPath ==
  (pc = "done" /\ browserOpen) => closeCalls > 0

\* C16: the serialized string truncateViolations returns is never longer
\* than MAX_RAW_VIOLATIONS_CHARS.
C16_SerializedWithinBudget ==
  truncation # NoTruncation
    => truncation.serialized <= MAX_RAW_VIOLATIONS_CHARS

\* C17: truncateViolations returns after at most 50 halvings, and then the
\* serialized size fits the budget or no finding has more than one node.
C17_FitsOrSingleWithinCap ==
  truncation # NoTruncation =>
    /\ truncation.passes <= TRUNCATE_PASS_CAP
    /\ \/ truncation.serialized <= MAX_RAW_VIOLATIONS_CHARS
       \/ \A i \in 1..Len(truncation.findings) :
            truncation.findings[i].nodes <= 1

\* C18: the list truncateViolations serializes holds the findings of its
\* argument in the same order with the same impacts, none with more nodes
\* than before and none that had a node left without one, so the counts by
\* severity taken before the call are those of the serialized list.
C18_FindingsKept ==
  truncation # NoTruncation =>
    /\ Len(truncation.findings) = Len(violations)
    /\ \A i \in 1..Len(violations) :
         /\ truncation.findings[i].impact = violations[i].impact
         /\ truncation.findings[i].nodeChars = violations[i].nodeChars
         /\ truncation.findings[i].nodes <= violations[i].nodes
         /\ violations[i].nodes >= 1 => truncation.findings[i].nodes >= 1
    /\ ViolationCounts(truncation.findings) = counts

C18_Witness ==
  /\ truncation.truncated /\ Len(violations) = MaxListLen
  /\ \E i \in 1..Len(violations) :
       truncation.findings[i].nodes < violations[i].nodes
  /\ counts.total = MaxListLen /\ counts.critical > 0

\* C19: after truncateViolations returned, the list it was given holds
\* every finding with the nodes it had before the call.
C19_ArgumentUnchanged ==
  truncation # NoTruncation => argument = violations

C19_Witness ==
  /\ truncation.truncated /\ truncation.findings # violations
  /\ argument = violations /\ Len(violations) = 2
  /\ violations[1].nodes = MaxNodes /\ truncation.findings[2].nodes = 2

C21_SeriousCap79 ==
  (gradeResult # NoGrade /\ counts.serious > 0 /\ counts.critical = 0) =>
    LET penalty == 12 * counts.serious + 5 * counts.moderate + counts.minor
    IN /\ gradeResult.score = Min(Max(0, 100 - penalty), 79)
       /\ (counts.serious = 1 /\ counts.moderate = 0 /\ counts.minor = 0)
            => (gradeResult.score = 79 /\ gradeResult.grade = "C")

\* C22: in every scan result each finding is counted in exactly one severity
\* bucket: total is the sum of critical, serious, moderate and minor and is
\* the number of findings the rule engine returned.
C22_CountsPartitionFindings ==
  (pc = "done" /\ outcome = "result") =>
    LET v == response.violations
    IN /\ v.total = v.critical + v.serious + v.moderate + v.minor
       /\ v.total = results.n
       /\ v.critical >= 0 /\ v.serious >= 0 /\ v.moderate >= 0
       /\ v.minor >= 0

C22_Witness ==
  /\ pc = "done" /\ outcome = "result" /\ results.n = MaxFindings
  /\ results.impacts[1] = "undefined" /\ results.impacts[2] = "critical"
  /\ response.violations.minor = 1 /\ response.violations.critical = 1

\* C26: every mutation of the shared counter is one atomic store operation
\* whose effect does not depend on an earlier round trip: the write that
\* clamps the counter to zero never takes away an increment another request
\* made since the releasing request's own decrement.
C26_ClampErasesNoIncrement ==
  [][(at'["rel_set"] = at["rel_set"] - 1 /\ crashes' = crashes)
       => store'.val >= store.val]_vars

\* C30: acquireConcurrencySlot returns false only while MAX_CONCURRENT_SCANS
\* slots are held: when the increment of an attempt comes back over capacity
\* (the attempt will return false), that many requests hold a slot or are
\* about to be handed one, so the transient increment of another rejected
\* attempt never gets an attempt rejected while a slot is free.
C30_RejectedOnlyWhenFull ==
  [][(at'["acq_expire_over"] = at["acq_expire_over"] + 1 /\ crashes = 0)
       => at["holding"] + at["acq_expire_ok"] >= MAX_CONCURRENT_SCANS]_vars

\* C27: each truncation pass changes one finding only, the first of those
\* with the most occurrences, and leaves it the first floor(n/2) of its n
\* occurrences; no finding is trimmed while another has strictly more.
\* The list after k passes is the loop run with k passes left.
C27_PassHalvesFirstLargest ==
  (truncation # NoTruncation /\ truncation.truncated) =>
    LET After(k) == TrimLoop(violations, TRUNCATE_PASS_CAP - k, 0).trimmed
    IN /\ After(truncation.passes) = truncation.findings
       /\ \A k \in 1..truncation.passes :
            LET before == After(k - 1)
                after == After(k)
            IN \E i \in 1..Len(before) :
                 /\ Len(after) = Len(before)
                 /\ \A j \in 1..Len(before) :
                      /\ before[j].nodes <= before[i].nodes
                      /\ j < i => before[j].nodes < before[i].nodes
                      /\ j # i => after[j] = before[j]
                 /\ after[i].nodes = before[i].nodes \div 2
                 /\ after[i].first = before[i].first
                 /\ after[i].impact = before[i].impact
                 /\ after[i].nodeChars = before[i].nodeChars

\* a list of many findings tied at two huge occurrences each and one with
\* three: the passes went through them from the front until the pass cap
C27_Witness ==
  /\ truncation # NoTruncation /\ truncation.truncated
  /\ Len(violations) = MaxListLen
  /\ violations[1].nodes = 3 /\ violations[2].nodes = 2
  /\ violations[MaxListLen].nodes = 2
  /\ truncation.passes = TRUNCATE_PASS_CAP
  /\ truncation.findings[1].nodes = 1 /\ truncation.findings[2].nodes = 1
  /\ truncation.findings[MaxListLen].nodes = 2

\* C28: a requested screenshot takes at most two captures, a capture that
\* fails leaves the scan going, and a returned screenshot under the blank
\* threshold of 30 000 bytes always comes with the screenshot warning.
C28_BlankScreenshotFlagged ==
  /\ screenshot.captures <= 2
  /\ (pc = "inject" /\ screenshot.captures > 0) => pending = "none"
  /\ (pc = "done" /\ outcome = "result" /\ response.screenshot.bytes >= 0
      /\ response.screenshot.bytes < 30000)
       => response.screenshot.warning

\* C23: when rate limiting is disabled by configuration, or the shared store
\* cannot be reached, checkRateLimit returns allowed = true without limit,
\* remaining or reset, and the request does not fail because of the limiter.
C23_DegradesOpen ==
  (rateResult.kind # "none" /\ (~redis \/ ~rateResult.reachable)) =>
    /\ rateResult.kind = "returned" /\ rateResult.allowed
    /\ rateResult.limit = -1 /\ rateResult.remaining = -1
    /\ rateResult.reset = -1
    /\ pending # "ratelimited" /\ outcome # "ratelimited"
    /\ pc \in {"acquire", "outerCatch"} => pending = "none"

\* ------------------------------------------------------------------------
\* SpecUrl: validateUrl applied to a URL.  An IPv4 address is its four
\* octets o; an IPv6 address is its first group h (0..65535) and what
\* follows: all zero ("zero"), zero up to a final 1 ("one"), or ffff and an
\* embedded IPv4 address o ("mapped", with h = 0).  Hostname literals are as
\* new URL() leaves them and resolved addresses as dns lookup prints them:
\* canonical, lower case, zero groups compressed.
\* ------------------------------------------------------------------------
\* PRIVATE_IPV4_RANGES: prefix and mask bits
PRIVATE_IPV4_RANGES ==
  << << <<0, 0, 0, 0>>, 8 >>, << <<10, 0, 0, 0>>, 8 >>,
     << <<100, 64, 0, 0>>, 10 >>, << <<127, 0, 0, 0>>, 8 >>,
     << <<169, 254, 0, 0>>, 16 >>, << <<172, 16, 0, 0>>, 12 >>,
     << <<192, 0, 0, 0>>, 24 >>, << <<192, 0, 2, 0>>, 24 >>,
     << <<192, 88, 99, 0>>, 24 >>, << <<192, 168, 0, 0>>, 16 >>,
     << <<198, 18, 0, 0>>, 15 >>, << <<198, 51, 100, 0>>, 24 >>,
     << <<203, 0, 113, 0>>, 24 >>, << <<224, 0, 0, 0>>, 4 >>,
     << <<240, 0, 0, 0>>, 4 >> >>

\* PRIVATE_IPV6_PREFIXES, character by character
PRIVATE_IPV6_PREFIXES ==
  << <<":", ":", "1">>, <<"f", "c">>, <<"f", "d">>, <<"f", "e", "8", "0">>,
     <<"f", "f">>, <<":", ":">> >>

RECURSIVE Pow2(_)
Pow2(n) == IF n = 0 THEN 1 ELSE 2 * Pow2(n - 1)

\* ipv4ToInt: the unsigned 32-bit value, kept as its two 16-bit halves
ipv4ToInt(ip) == [hi |-> ip[1] * 256 + ip[2], lo |-> ip[3] * 256 + ip[4]]

\* v & mask, for the mask with maskBits leading ones
Masked(v, maskBits) ==
  [hi |-> IF maskBits >= 16 THEN v.hi
          ELSE (v.hi \div Pow2(16 - maskBits)) * Pow2(16 - maskBits),
   lo |-> IF maskBits <= 16 THEN 0
          ELSE (v.lo \div Pow2(32 - maskBits)) * Pow2(32 - maskBits)]

isPrivateIPv4(ip) ==
  \E k \in 1..Len(PRIVATE_IPV4_RANGES) :
    LET prefix == PRIVATE_IPV4_RANGES[k][1]
        maskBits == PRIVATE_IPV4_RANGES[k][2]
    IN Masked(ipv4ToInt(ip), maskBits) = Masked(ipv4ToInt(prefix), maskBits)

\* a group in lower-case hexadecimal without leading zeros
RECURSIVE HexDigits(_)
HexDigits(n) ==
  LET HexChars == <<"0", "1", "2", "3", "4", "5", "6", "7", "8", "9",
                    "a", "b", "c", "d", "e", "f">>
  IN IF n < 16 THEN <<HexChars[n + 1]>>
     ELSE HexDigits(n \div 16) \o <<HexChars[(n % 16) + 1]>>

\* the text of an IPv6 address up to where the prefixes stop looking
Ipv6Text(a) ==
  (IF a.h = 0 THEN <<":", ":">> ELSE HexDigits(a.h) \o <<":", ":">>)
  \o (CASE a.rest = "zero" -> << >>
        [] a.rest = "one" -> <<"1">>
        [] a.rest = "mapped" -> <<"f", "f", "f", "f", ":", "v4">>)

\* isPrivateIPv6: the exact match, the prefixes in order, then the
\* IPv4-mapped form
isPrivateIPv6(a) ==
  LET normalized == Ipv6Text(a)
      StartsWith(prefix) ==
        /\ Len(normalized) >= Len(prefix)
        /\ SubSeq(normalized, 1, Len(prefix)) = prefix
  IN \/ normalized = <<":", ":">>
     \/ \E k \in 1..Len(PRIVATE_IPV6_PREFIXES) :
          StartsWith(PRIVATE_IPV6_PREFIXES[k])
     \/ a.rest = "mapped" /\ a.h = 0 /\ isPrivateIPv4(a.o)

\* validateUrl; url is what new URL(rawUrl) gave (scheme "invalid" when it
\* threw), res what lookup(hostname) does for a host name
validateUrl(url, res, production) ==
  IF url.scheme = "invalid" THEN [ok |-> FALSE, reason |-> "invalid url"]
  ELSE IF url.scheme \notin {"http", "https"}
  THEN [ok |-> FALSE, reason |-> "scheme"]
  ELSE IF url.host = "empty" THEN [ok |-> FALSE, reason |-> "hostname"]
  ELSE IF url.host = "name" /\ res.kind = "ENOTFOUND"
  THEN [ok |-> FALSE, reason |-> "unresolved"]
  ELSE IF url.host = "name" /\ res.kind = "other error"
  THEN [ok |-> TRUE, reason |-> "none"]
  ELSE LET resolvedIp == IF url.host = "literal" THEN url.addr ELSE res.addr
           \* the text holds a colon exactly for an IPv6 address
           isIPv6 == resolvedIp.fam = 6
           isPrivate == IF isIPv6 THEN isPrivateIPv6(resolvedIp)
                        ELSE isPrivateIPv4(resolvedIp.o)
       IN IF production /\ isPrivate
          THEN [ok |-> FALSE, reason |-> "private"]
          ELSE [ok |-> TRUE, reason |-> "none"]

\* the IPv4 addresses tried: both ends of every listed range and neighbours
Ipv4Samples ==
  {[fam |-> 4, o |-> ip, h |-> 0, rest |-> "none"] : ip \in
   {<<0, 0, 0, 0>>, <<1, 1, 1, 1>>, <<9, 255, 255, 255>>, <<10, 0, 0, 1>>,
   <<10, 255, 255, 255>>, <<11, 0, 0, 0>>, <<93, 184, 216, 34>>,
   <<100, 63, 255, 255>>, <<100, 64, 0, 0>>, <<100, 127, 255, 255>>,
   <<100, 128, 0, 0>>, <<127, 0, 0, 1>>, <<127, 255, 255, 255>>,
   <<128, 0, 0, 1>>, <<169, 253, 255, 255>>, <<169, 254, 169, 254>>,
   <<169, 255, 0, 0>>, <<172, 15, 255, 255>>, <<172, 16, 0, 1>>,
   <<172, 31, 255, 255>>, <<172, 32, 0, 0>>, <<192, 0, 2, 1>>,
   <<192, 0, 3, 1>>, <<192, 167, 255, 255>>, <<192, 168, 1, 1>>,
   <<192, 169, 0, 0>>, <<198, 17, 255, 255>>, <<198, 18, 0, 1>>,
   <<198, 19, 255, 255>>, <<198, 20, 0, 0>>, <<198, 51, 100, 7>>,
   <<203, 0, 113, 9>>, <<203, 0, 114, 0>>, <<223, 255, 255, 255>>,
   <<224, 0, 0, 1>>, <<239, 255, 255, 255>>, <<240, 0, 0, 1>>,
   <<255, 255, 255, 255>>}}

\* the IPv6 addresses tried; first groups 0, 2001, fc, fbff, fc00, fd12,
\* fdff, fe00, fe7f, fe80, fe81, fe90, febf, fec0, ff02
Ipv6Samples ==
  {[fam |-> 6, o |-> <<0, 0, 0, 0>>, h |-> g, rest |-> r] :
     g \in {0, 8193, 252, 64511, 64512, 64786, 65023, 65024, 65151, 65152,
            65153, 65168, 65215, 65216, 65282},
     r \in {"zero", "one"}}
  \cup {[fam |-> 6, o |-> ip, h |-> 0, rest |-> "mapped"] :
          ip \in {<<192, 168, 1, 1>>, <<93, 184, 216, 34>>}}

AddressSamples == Ipv4Samples \cup Ipv6Samples

UrlInputs ==
  {[scheme |-> "invalid", host |-> "empty", addr |-> NoAddr],
   [scheme |-> "https", host |-> "empty", addr |-> NoAddr]}
  \cup {[scheme |-> sc, host |-> "name", addr |-> NoAddr] :
          sc \in {"http", "https", "ftp"}}
  \cup {[scheme |-> sc, host |-> "literal", addr |-> a] :
          sc \in {"http", "https"}, a \in AddressSamples}

Resolutions ==
  {[kind |-> "address", addr |-> a] : a \in AddressSamples}
  \cup {[kind |-> "ENOTFOUND", addr |-> NoAddr],
        [kind |-> "other error", addr |-> NoAddr]}

InitUrl ==
  /\ redis = FALSE /\ store = Absent
  /\ at = [l \in Locs |-> 0] /\ crashes = 0 /\ leakClock = -1
  /\ SeqIdle /\ ScanIdle /\ RedIdle
  /\ rawUrl \in UrlInputs
  /\ resolution \in (IF rawUrl.host = "name" THEN Resolutions
                     ELSE {NoResolution})
  /\ isProduction \in BOOLEAN
  /\ validation = NoValidation
  /\ audits = [id \in 1..MaxAudits |-> NoAudit]

ValidateCall ==
  /\ validation = NoValidation
  /\ validation' = validateUrl(rawUrl, resolution, isProduction)
  /\ UNCHANGED <<redis, store, rawUrl, resolution, isProduction, audits>>

NextUrl ==
  \/ ValidateCall /\ UNCHANGED <<admVars, seqVars, scanVars, redVars>>

SpecUrl == InitUrl /\ [][NextUrl]_vars

\* C25: in production validateUrl rejects every http(s) URL whose hostname
\* is, or resolves to, an address in IPv4 loopback, RFC 1918, link-local,
\* carrier-grade NAT, documentation, benchmark, multicast or reserved space,
\* or in the IPv6 ranges ::1, fc00::/7 and fe80::/10.
C25_PrivateRangesRejected ==
  (validation # NoValidation /\ isProduction
   /\ rawUrl.scheme \in {"http", "https"}
   /\ (rawUrl.host = "literal"
       \/ (rawUrl.host = "name" /\ resolution.kind = "address"))) =>
    LET a == IF rawUrl.host = "literal" THEN rawUrl.addr ELSE resolution.addr
        Claimed ==
          IF a.fam = 6
          THEN \/ a.h = 0 /\ a.rest = "one"
               \/ a.h \div 512 = 126
               \/ a.h \div 64 = 1018
          ELSE \/ a.o[1] = 127 \/ a.o[1] = 10
               \/ a.o[1] = 172 /\ a.o[2] \in 16..31
               \/ a.o[1] = 192 /\ a.o[2] = 168
               \/ a.o[1] = 169 /\ a.o[2] = 254
               \/ a.o[1] = 100 /\ a.o[2] \in 64..127
               \/ a.o[1] = 192 /\ a.o[2] = 0 /\ a.o[3] = 2
               \/ a.o[1] = 198 /\ a.o[2] = 51 /\ a.o[3] = 100
               \/ a.o[1] = 203 /\ a.o[2] = 0 /\ a.o[3] = 113
               \/ a.o[1] = 198 /\ a.o[2] \in 18..19
               \/ a.o[1] >= 224
    IN Claimed => ~validation.ok

\* ------------------------------------------------------------------------
\* SpecAudit: the audits table under the public mutations of audits.ts.
\* Each mutation is one transaction; its arguments are whatever a client
\* sends that passes the argument validators.  A call that throws (audit
\* not found, not authorized) changes nothing and is left out.
\* ------------------------------------------------------------------------
GRADING_VERSION == 2

\* getAuthUserId: the signed-in user, or "none" for an anonymous caller
Callers == {"none", "u1"}

\* verifyAuditOwnership: the audit exists and, if owned, the caller owns it
verifyAuditOwnership(a, caller) ==
  /\ a.status # "absent"
  /\ a.userId # "none" => caller = a.userId

\* argument values tried
ViolationArgs ==
  {NoCounts,
   [critical |-> 1, serious |-> 0, moderate |-> 0, minor |-> 0, total |-> 1],
   [critical |-> 0, serious |-> 1, moderate |-> 0, minor |-> 0, total |-> 1]}

GradeArgs ==
  {[score |-> 100, grade |-> "A"], [score |-> 0, grade |-> "F"]}
  \cup {calculateGrade(v) : v \in ViolationArgs}

\* the first document id not in use, 0 if the table is full
FreeId ==
  IF \A id \in 1..MaxAudits : audits[id].status # "absent" THEN 0
  ELSE CHOOSE id \in 1..MaxAudits :
         /\ audits[id].status = "absent"
         /\ \A j \in 1..(id - 1) : audits[j].status # "absent"

\* createAudit: a signed-in caller with a recent audit of the same URL gets
\* that audit back; otherwise a pending audit is inserted
createAudit ==
  \E caller \in Callers, recent \in BOOLEAN :
    IF caller # "none" /\ recent
       /\ \E id \in 1..MaxAudits : audits[id].userId = caller
    THEN UNCHANGED audits
    ELSE /\ FreeId # 0
         /\ audits' = [audits EXCEPT ![FreeId] =
              [status |-> "pending", violations |-> NoCounts,
               letterGrade |-> "F", score |-> 0, gradingVersion |-> 0,
               userId |-> caller]]

updateAuditStatus ==
  \E caller \in Callers, id \in 1..MaxAudits, st \in {"scanning", "complete"} :
    /\ verifyAuditOwnership(audits[id], caller)
    /\ audits' = [audits EXCEPT ![id].status = st]

\* updateAuditWithResults: every argument given is patched in; ver = 0 is
\* a call without the optional gradingVersion
updateAuditWithResults ==
  \E caller \in Callers, id \in 1..MaxAudits, v \in ViolationArgs,
     g \in GradeArgs, ver \in {0, 1, GRADING_VERSION} :
    /\ verifyAuditOwnership(audits[id], caller)
    /\ audits' = [audits EXCEPT ![id] =
         [@ EXCEPT !.violations = v, !.letterGrade = g.grade,
                   !.score = g.score, !.status = "complete",
                   !.gradingVersion = IF ver = 0 THEN @ ELSE ver]]

updateAuditError ==
  \E caller \in Callers, id \in 1..MaxAudits :
    /\ verifyAuditOwnership(audits[id], caller)
    /\ audits' = [audits EXCEPT ![id].status = "error"]

updateAuditWithAI ==
  \E caller \in Callers, id \in 1..MaxAudits :
    /\ verifyAuditOwnership(audits[id], caller)
    /\ audits' = [audits EXCEPT ![id].status = "complete"]

\* recalculateGrade: no ownership check; the grade, score and version of the
\* arguments are written as they come
recalculateGrade ==
  \E id \in 1..MaxAudits, g \in GradeArgs, ver \in {1, GRADING_VERSION} :
    /\ audits[id].status # "absent"
    /\ audits' = [audits EXCEPT ![id] =
         [@ EXCEPT !.letterGrade = g.grade, !.score = g.score,
                   !.gradingVersion = ver]]

\* migrateGrades: regrade every complete audit not on the current version
migrateGrades ==
  audits' =
    [id \in 1..MaxAudits |->
       IF audits[id].status = "complete"
          /\ audits[id].gradingVersion # GRADING_VERSION
       THEN [audits[id] EXCEPT
               !.letterGrade = calculateGrade(audits[id].violations).grade,
               !.score = calculateGrade(audits[id].violations).score,
               !.gradingVersion = GRADING_VERSION]
       ELSE audits[id]]

InitAudit ==
  /\ redis = FALSE /\ store = Absent
  /\ at = [l \in Locs |-> 0] /\ crashes = 0 /\ leakClock = -1
  /\ SeqIdle /\ ScanIdle /\ RedIdle
  /\ SideIdle

NextAudit ==
  \/ migrateGrades /\ UNCHANGED <<redis, store, admVars, seqVars,
       scanVars, redVars, rawUrl, resolution, isProduction, validation>>
  \/ updateAuditWithAI /\ UNCHANGED <<redis, store, admVars, seqVars,
       scanVars, redVars, rawUrl, resolution, isProduction, validation>>
  \/ updateAuditError /\ UNCHANGED <<redis, store, admVars, seqVars,
       scanVars, redVars, rawUrl, resolution, isProduction, validation>>
  \/ updateAuditStatus /\ UNCHANGED <<redis, store, admVars, seqVars,
       scanVars, redVars, rawUrl, resolution, isProduction, validation>>
  \/ recalculateGrade /\ UNCHANGED <<redis, store, admVars, seqVars,
       scanVars, redVars, rawUrl, resolution, isProduction, validation>>
  \/ createAudit /\ UNCHANGED <<redis, store, admVars, seqVars,
       scanVars, redVars, rawUrl, resolution, isProduction, validation>>
  \/ updateAuditWithResults /\ UNCHANGED <<redis, store, admVars, seqVars,
       scanVars, redVars, rawUrl, resolution, isProduction, validation>>

SpecAudit == InitAudit /\ [][NextAudit]_vars

\* C29: after any sequence of audit mutations every stored audit whose
\* gradingVersion is GRADING_VERSION has the score and letter grade that
\* calculateGrade gives for its violations.
C29_CurrentVersionIsGraded ==
  \A id \in 1..MaxAudits :
    (audits[id].status # "absent"
     /\ audits[id].gradingVersion = GRADING_VERSION) =>
      /\ audits[id].score = calculateGrade(audits[id].violations).score
      /\ audits[id].letterGrade = calculateGrade(audits[id].violations).grade

====
